---- MODULE Spec2Model ----
(***************************************************************************)
(* A model of the FINC450 exchange-rate tooling:                           *)
(*   - bloomberg_weekly_loader.py : the XLSX worksheet extractor           *)
(*   - exchange_rate_analysis.py  : loader, change series, statistics,     *)
(*                                  correlation matrix and SVG charts      *)
(*   - analysis/plot_exchange_rates_fred_style.py : date column detection  *)
(*                                                                         *)
(* Text is modelled as sequences of one-character strings, so that the     *)
(* character-level code (isalpha, upper, lower, strip, float, strptime)    *)
(* is computed rather than assumed.                                        *)
(***************************************************************************)
EXTENDS Integers, Sequences, FiniteSets, TLC

VARIABLES
    \* _column_index
    cell_ref, col_idx, colpc,
    \* _read_sheet_cells / load_bloomberg_weekly_exchange_rates
    sheetpc, sheet_rows, row_cells, decl, max_col, column_count, header, rows,
    \* exchange_rate_analysis: change series, summaries, derived CSV
    dates, data, percent_changes, start_date, end_date, summary,
    summary_full, summary_crisis, changes_csv, correlation_csv, tpc,
    \* exchange_rate_analysis.load_exchange_rates
    fieldnames, currencies, rows_read, accepted, date_hits, lpc,
    \* exchange_rate_analysis.plot_exchange_rates / plot_series_svg
    files, written, plot_next, ppc,
    \* exchange_rate_analysis.plot_series_svg, one call: its dates and values
    \* arguments, the file at output_path, and how the call ended
    chart_dates, chart_values, svg_file, rpc

colVars   == <<cell_ref, col_idx, colpc>>
sheetVars == <<sheetpc, sheet_rows, row_cells, decl, max_col, column_count, header, rows>>
mainVars  == <<dates, data, percent_changes, start_date, end_date, summary,
               summary_full, summary_crisis, changes_csv, correlation_csv, tpc>>
loadVars  == <<fieldnames, currencies, rows_read, accepted, date_hits, lpc>>
renderVars == <<chart_dates, chart_values, svg_file, rpc>>
plotVars  == <<files, written, plot_next, ppc, renderVars>>
vars      == <<colVars, sheetVars, mainVars, loadVars, plotVars>>

(***************************************************************************)
(* Generic helpers                                                         *)
(***************************************************************************)
\* Optional[...]: None is the empty tuple, a present value v is <<v>>
None == <<>>
Some(v) == <<v>>
Val(x) == x[1]
Present(x) == x # None

Range(s) == {s[i] : i \in DOMAIN s}

SeqsFromTo(S, lo, hi) == UNION {[1..k -> S] : k \in lo..hi}

RECURSIVE SetMax(_)
SetMax(S) ==
    LET x == CHOOSE y \in S : TRUE
    IN  IF S = {x} THEN x
        ELSE LET m == SetMax(S \ {x}) IN IF x > m THEN x ELSE m

Max2(a, b) == IF a >= b THEN a ELSE b

(***************************************************************************)
(* Characters                                                              *)
(***************************************************************************)
UpperLetters ==
    <<"A","B","C","D","E","F","G","H","I","J","K","L","M",
      "N","O","P","Q","R","S","T","U","V","W","X","Y","Z">>

LowerLetters ==
    <<"a","b","c","d","e","f","g","h","i","j","k","l","m",
      "n","o","p","q","r","s","t","u","v","w","x","y","z">>

Digits == <<"0","1","2","3","4","5","6","7","8","9">>

IsUpper(ch) == \E i \in 1..26 : UpperLetters[i] = ch
IsLower(ch) == \E i \in 1..26 : LowerLetters[i] = ch
IsDigit(ch) == \E i \in 1..10 : Digits[i] = ch

\* str.isalpha() on one character
isalpha(ch) == IsUpper(ch) \/ IsLower(ch)

\* built-in ord(), on the characters the model uses
ord(ch) ==
    IF IsUpper(ch) THEN 64 + (CHOOSE i \in 1..26 : UpperLetters[i] = ch)
    ELSE IF IsLower(ch) THEN 96 + (CHOOSE i \in 1..26 : LowerLetters[i] = ch)
    ELSE IF IsDigit(ch) THEN 47 + (CHOOSE i \in 1..10 : Digits[i] = ch)
    ELSE IF ch = " " THEN 32
    ELSE IF ch = "$" THEN 36
    ELSE IF ch = "(" THEN 40
    ELSE IF ch = ")" THEN 41
    ELSE IF ch = "," THEN 44
    ELSE IF ch = "-" THEN 45
    ELSE IF ch = "." THEN 46
    ELSE 47

\* str.upper() / str.lower() on one character
upper(ch) ==
    IF IsLower(ch) THEN UpperLetters[CHOOSE i \in 1..26 : LowerLetters[i] = ch] ELSE ch

lower(ch) ==
    IF IsUpper(ch) THEN LowerLetters[CHOOSE i \in 1..26 : UpperLetters[i] = ch] ELSE ch

UpperStr(s) == [i \in DOMAIN s |-> upper(s[i])]
LowerStr(s) == [i \in DOMAIN s |-> lower(s[i])]

(***************************************************************************)
(* bloomberg_weekly_loader._column_index                                   *)
(***************************************************************************)
\* letters = "".join(ch for ch in cell_ref if ch.isalpha())
RefLetters(ref) == SelectSeq(ref, isalpha)

\* one turn of the loop body: idx * 26 + (ord(ch.upper()) - ord("A") + 1)
ColumnStepNoUpper(idx, ch) == idx * 26 + (ord(ch) - ord("A") + 1)

ColumnStep(idx, ch) == idx * 26 + (ord(upper(ch)) - ord("A") + 1)

RECURSIVE ColumnFold(_, _)
ColumnFold(idx, letters) ==
    IF letters = <<>> THEN idx
    ELSE ColumnFold(ColumnStep(idx, Head(letters)), Tail(letters))

_column_index(ref) == ColumnFold(0, RefLetters(ref)) - 1

MaxLetters == 2

\* the letters a reference may use: every upper-case letter, some lower-case
RefAlphabet == Range(UpperLetters) \cup {"a", "b", "z"}

RefRowDigits == {<<"1">>, <<"1", "2">>}

ColumnRefs ==
    {l \o d : l \in SeqsFromTo(RefAlphabet, 1, MaxLetters), d \in RefRowDigits}

IdleCol == cell_ref = <<>> /\ col_idx = -1 /\ colpc = "idle"

InitCol == cell_ref \in ColumnRefs /\ col_idx = -1 /\ colpc = "call"

ColumnIndex ==
    /\ colpc = "call"
    /\ col_idx' = _column_index(cell_ref)
    /\ colpc' = "done"
    /\ UNCHANGED <<cell_ref, sheetVars, mainVars, loadVars, plotVars>>

(***************************************************************************)
(* bloomberg_weekly_loader._read_sheet_cells and                           *)
(* load_bloomberg_weekly_exchange_rates                                    *)
(*                                                                         *)
(* The worksheet XML is read row element by row element and cell element   *)
(* by cell element.  A cell element is [r, t, v]: its "r" attribute (<<>>  *)
(* when it has none), its "t" attribute and the text of its value node.    *)
(* Dictionaries are functions from keys to values.                         *)
(***************************************************************************)
MaxRows == 2
MaxCells == 2

\* _read_shared_strings: the shared-strings table of the workbook
shared_strings == <<"y">>

\* int(value_node.text) for a one-digit index
IntOfDigit(ch) == ord(ch) - ord("0")

\* the cell elements a row may declare
SheetCells ==
    { [r |-> <<>>, t |-> "n", v |-> "x"] } \cup
    { [r |-> ref, t |-> ty[1], v |-> ty[2]] :
        ref \in {<<"A", "1">>, <<"C", "1">>},
        ty \in {<<"n", "x">>, <<"s", "0">>} }

\* value resolution by cell type
CellValue(cell) ==
    IF cell.t = "s" THEN shared_strings[IntOfDigit(cell.v) + 1]
    ELSE cell.v

DictSet(d, k, v) == [x \in DOMAIN d \cup {k} |-> IF x = k THEN v ELSE d[x]]

\* max_col = max(max_col, col_idx)
NextMaxColLast(mc, col) == col

NextMaxCol(mc, col) == Max2(mc, col)

\* row_cells[col_idx] = value
StoreCellByPosition(rc, cell) ==
    DictSet(rc, Cardinality(DOMAIN rc), CellValue(cell))

StoreCell(rc, cell) == DictSet(rc, _column_index(cell.r), CellValue(cell))

\* the body of "for cell in row.findall(...)" on the row dictionary
ReadCellInto(rc, cell) == IF cell.r = <<>> THEN rc ELSE StoreCell(rc, cell)

RECURSIVE RowCellsOf(_, _)
RowCellsOf(rc, cells) ==
    IF cells = <<>> THEN rc
    ELSE RowCellsOf(ReadCellInto(rc, Head(cells)), Tail(cells))

\* row = ["" for _ in range(column_count)]; row[idx] = value for each item
GridRow(rc, n) == [i \in 1..n |-> IF (i - 1) \in DOMAIN rc THEN rc[i - 1] ELSE ""]

IdleSheet ==
    /\ sheetpc = "idle" /\ sheet_rows = <<>> /\ row_cells = <<>> /\ decl = <<>>
    /\ max_col = 0 /\ column_count = 0 /\ header = <<>> /\ rows = <<>>

InitSheet ==
    /\ sheetpc = "rows" /\ sheet_rows = <<>> /\ row_cells = <<>> /\ decl = <<>>
    /\ max_col = 0 /\ column_count = 0 /\ header = <<>> /\ rows = <<>>

\* the next row element: row_cells = {}
BeginRow ==
    /\ sheetpc = "rows"
    /\ Len(sheet_rows) < MaxRows
    /\ sheetpc' = "cells"
    /\ row_cells' = <<>>
    /\ decl' = <<>>
    /\ UNCHANGED <<sheet_rows, max_col, column_count, header, rows, colVars, mainVars, loadVars, plotVars>>

\* the next cell element of the row
ReadCell ==
    /\ sheetpc = "cells"
    /\ Len(decl) < MaxCells
    /\ \E cell \in SheetCells :
        /\ decl' = Append(decl, cell)
        /\ row_cells' = ReadCellInto(row_cells, cell)
        /\ max_col' = IF cell.r = <<>> THEN max_col
                      ELSE NextMaxCol(max_col, _column_index(cell.r))
    /\ UNCHANGED <<sheetpc, sheet_rows, column_count, header, rows, colVars, mainVars, loadVars, plotVars>>

\* rows.append(row_cells)
EndRow ==
    /\ sheetpc = "cells"
    /\ sheetpc' = "rows"
    /\ sheet_rows' = Append(sheet_rows, row_cells)
    /\ UNCHANGED <<row_cells, decl, max_col, column_count, header, rows, colVars, mainVars, loadVars, plotVars>>

\* return rows, max_col + 1
ReturnSheetCells ==
    /\ sheetpc = "rows"
    /\ sheetpc' = "read"
    /\ column_count' = max_col + 1
    /\ UNCHANGED <<sheet_rows, row_cells, decl, max_col, header, rows, colVars, mainVars, loadVars, plotVars>>

\* load_bloomberg_weekly_exchange_rates after the read
LoadGrid ==
    /\ sheetpc = "read"
    /\ sheetpc' = "done"
    /\ LET grid == [i \in 1..Len(sheet_rows) |-> GridRow(sheet_rows[i], column_count)]
       IN  IF grid = <<>>
           THEN header' = <<>> /\ rows' = <<>>
           ELSE header' = grid[1] /\ rows' = Tail(grid)
    /\ UNCHANGED <<sheet_rows, row_cells, decl, max_col, column_count, colVars, mainVars, loadVars, plotVars>>

(***************************************************************************)
(* Text helpers                                                            *)
(***************************************************************************)
\* needle in hay
Contains(hay, needle) ==
    \E i \in 1..(Len(hay) - Len(needle) + 1) :
        SubSeq(hay, i, i + Len(needle) - 1) = needle

\* str.replace(ch, "")
Without(s, ch) == SelectSeq(s, LAMBDA x : x # ch)

IsSpace(ch) == ch = " "

\* str.strip()
RECURSIVE LStrip(_)
LStrip(s) == IF s # <<>> /\ IsSpace(Head(s)) THEN LStrip(Tail(s)) ELSE s

RECURSIVE RStrip(_)
RStrip(s) ==
    IF s # <<>> /\ IsSpace(s[Len(s)]) THEN RStrip(SubSeq(s, 1, Len(s) - 1)) ELSE s

strip(s) == RStrip(LStrip(s))

AllDigits(s) == \A i \in 1..Len(s) : IsDigit(s[i])

\* int() of a digit string
RECURSIVE DigitsValue(_)
DigitsValue(s) ==
    IF s = <<>> THEN 0
    ELSE DigitsValue(SubSeq(s, 1, Len(s) - 1)) * 10 + (ord(s[Len(s)]) - ord("0"))

\* str.split(sep) on a one-character separator
RECURSIVE Split(_, _)
Split(s, sep) ==
    IF \A i \in 1..Len(s) : s[i] # sep THEN <<s>>
    ELSE LET k == CHOOSE i \in 1..Len(s) :
                    s[i] = sep /\ \A j \in 1..(i - 1) : s[j] # sep
         IN  <<SubSeq(s, 1, k - 1)>> \o Split(SubSeq(s, k + 1, Len(s)), sep)

(***************************************************************************)
(* analysis/plot_exchange_rates_fred_style.find_date_column                *)
(***************************************************************************)
DateWord == <<"d", "a", "t", "e">>

find_date_column(columns) ==
    IF \E i \in 1..Len(columns) : Contains(LowerStr(columns[i]), DateWord)
    THEN columns[CHOOSE i \in 1..Len(columns) :
                    /\ Contains(LowerStr(columns[i]), DateWord)
                    /\ \A j \in 1..(i - 1) : ~Contains(LowerStr(columns[j]), DateWord)]
    ELSE columns[1]

(***************************************************************************)
(* exchange_rate_analysis.parse_float and load_exchange_rates              *)
(*                                                                         *)
(* The CSV is a header (fieldnames) and rows of field texts; csv.DictReader*)
(* turns a row into a dictionary keyed by field name, a missing trailing   *)
(* field being None.  A parsed rate is an integer number of hundredths.    *)
(***************************************************************************)
\* float(cleaned) succeeds: [sign] digits [. digits], some digit present
FloatOk(s) ==
    LET u     == IF s # <<>> /\ Head(s) \in {"+", "-"} THEN Tail(s) ELSE s
        parts == Split(u, ".")
    IN  /\ Len(parts) <= 2
        /\ \A i \in 1..Len(parts) : AllDigits(parts[i])
        /\ \E i \in 1..Len(parts) : parts[i] # <<>>

\* float(cleaned) in hundredths (texts carry at most two decimals)
FloatValue(s) ==
    LET neg   == s # <<>> /\ Head(s) = "-"
        u     == IF s # <<>> /\ Head(s) \in {"+", "-"} THEN Tail(s) ELSE s
        parts == Split(u, ".")
        frac  == IF Len(parts) = 2 THEN SubSeq(parts[2] \o <<"0", "0">>, 1, 2) ELSE <<"0", "0">>
        mag   == DigitsValue(parts[1]) * 100 + DigitsValue(frac)
    IN  IF neg THEN 0 - mag ELSE mag

\* value is Optional text; the result is an Optional rate
parse_float(value) ==
    IF value = None THEN None
    ELSE LET cleaned == strip(Without(Without(Val(value), "$"), ","))
         IN  IF cleaned = <<>> THEN None
             ELSE IF FloatOk(cleaned) THEN Some(FloatValue(cleaned))
             ELSE None

IsLeap(y) == (y % 4 = 0 /\ y % 100 # 0) \/ y % 400 = 0

DaysInMonth(y, m) ==
    IF m = 2 THEN (IF IsLeap(y) THEN 29 ELSE 28)
    ELSE IF m \in {4, 6, 9, 11} THEN 30 ELSE 31

\* datetime.strptime(text, "%m/%d/%Y") succeeds
StrptimeOk(text) ==
    LET parts == Split(text, "/")
    IN  /\ Len(parts) = 3
        /\ Len(parts[1]) \in {1, 2} /\ AllDigits(parts[1])
        /\ Len(parts[2]) \in {1, 2} /\ AllDigits(parts[2])
        /\ Len(parts[3]) = 4 /\ AllDigits(parts[3])
        /\ DigitsValue(parts[1]) \in 1..12
        /\ DigitsValue(parts[3]) >= 1
        /\ DigitsValue(parts[2]) \in
              1..DaysInMonth(DigitsValue(parts[3]), DigitsValue(parts[1]))

\* the parsed date, as yyyymmdd
StrptimeDate(text) ==
    LET parts == Split(text, "/")
    IN  DigitsValue(parts[3]) * 10000 + DigitsValue(parts[1]) * 100 + DigitsValue(parts[2])

DateHeader == <<"D", "a", "t", "e">>
AutoPlaceholder == <<"(", "a", "u", "t", "o", ")">>

\* the row dictionary of csv.DictReader: a repeated name keeps its last field
RowDict(names, row) ==
    [name \in Range(names) |->
        LET i == CHOOSE k \in 1..Len(names) :
                    names[k] = name /\ \A j \in (k + 1)..Len(names) : names[j] # name
        IN  IF i <= Len(row) THEN Some(row[i]) ELSE None]

\* row.get(key, default)
DictGet(d, key, default) == IF key \in DOMAIN d THEN d[key] ELSE default

\* the row is skipped: no usable "Date" field
RowSkipped(rd) ==
    \/ DictGet(rd, DateHeader, None) \in {None, Some(<<>>), Some(AutoPlaceholder)}
    \/ ~StrptimeOk(Val(rd[DateHeader]))

\* for currency in currencies: data[currency].append(parse_float(row.get(currency, "")))
RECURSIVE AppendRates(_, _, _)
AppendRates(d, cs, rd) ==
    IF cs = <<>> THEN d
    ELSE AppendRates(
            [d EXCEPT ![Head(cs)] = Append(@, parse_float(DictGet(rd, Head(cs), Some(<<>>))))],
            Tail(cs), rd)

MaxFields == 3
MaxCsvRows == 2

HeaderNames == { DateHeader, <<"D", "A", "T", "E">>, <<"E", "U", "R">> }

DateTexts ==
    { <<>>, AutoPlaceholder, <<"1", "/", "8", "/", "2", "0", "2", "0">>,
      <<"1", "3", "/", "1", "/", "2", "0", "2", "0">> }

RateTexts == { <<>>, <<"$", "1", ",", "2", "3", "4", ".", "5">>, <<"N", "/", "A">> }

FieldTexts == DateTexts \cup RateTexts

\* the rows a file with n columns may hold: complete, or without the last field
CsvRows(n) == [1..n -> FieldTexts] \cup [1..(n - 1) -> FieldTexts]

IdleLoad ==
    /\ fieldnames = <<>> /\ currencies = <<>> /\ rows_read = 0
    /\ accepted = 0 /\ date_hits = 0 /\ lpc = "idle"

InitLoad ==
    /\ fieldnames \in SeqsFromTo(HeaderNames, 1, MaxFields)
    /\ currencies = <<>> /\ rows_read = 0 /\ accepted = 0 /\ date_hits = 0
    /\ lpc = "open"

\* reader = csv.DictReader(handle); currencies, dates and data are set up
OpenCsv ==
    /\ lpc = "open"
    /\ currencies' = SelectSeq(fieldnames, LAMBDA field : field # DateHeader)
    /\ dates' = <<>>
    /\ data' = [currency \in Range(currencies') |-> <<>>]
    /\ lpc' = "reading"
    /\ UNCHANGED <<fieldnames, rows_read, accepted, date_hits>>
    /\ UNCHANGED <<percent_changes, start_date, end_date, summary, summary_full,
                   summary_crisis, changes_csv, correlation_csv, tpc, colVars, sheetVars, plotVars>>

\* the position of the column the documented rule takes as the date column
DateColumnIndex(names) ==
    CHOOSE i \in 1..Len(names) :
        names[i] = find_date_column(names) /\ \A j \in 1..(i - 1) : names[j] # names[i]

\* one turn of "for row in reader"; accepted and date_hits count the rows
\* whose "Date" field, resp. documented date column, holds a usable date
ReadCsvRow ==
    /\ lpc = "reading"
    /\ rows_read < MaxCsvRows
    /\ \E row \in CsvRows(Len(fieldnames)) :
        LET rd == RowDict(fieldnames, row)
            k  == DateColumnIndex(fieldnames)
        IN  /\ rows_read' = rows_read + 1
            /\ date_hits' = IF k <= Len(row) /\ StrptimeOk(row[k])
                            THEN date_hits + 1 ELSE date_hits
            /\ IF RowSkipped(rd)
               THEN UNCHANGED <<dates, data, accepted>>
               ELSE /\ dates' = Append(dates, StrptimeDate(Val(rd[DateHeader])))
                    /\ data' = AppendRates(data, currencies, rd)
                    /\ accepted' = accepted + 1
    /\ UNCHANGED <<fieldnames, currencies, lpc>>
    /\ UNCHANGED <<percent_changes, start_date, end_date, summary, summary_full,
                   summary_crisis, changes_csv, correlation_csv, tpc, colVars, sheetVars, plotVars>>

\* return dates, data
ReturnLoad ==
    /\ lpc = "reading"
    /\ lpc' = "done"
    /\ UNCHANGED <<fieldnames, currencies, rows_read, accepted, date_hits>>
    /\ UNCHANGED <<mainVars, colVars, sheetVars, plotVars>>

(***************************************************************************)
(* exchange_rate_analysis: the change-series transformer                   *)
(*                                                                         *)
(* A rate is an integer number of hundredths.  Dates are integers yyyymmdd,*)
(* ordered as the dates they stand for.  A series of the change mapping is *)
(* a sequence of <<date, optional change>> pairs.                          *)
(***************************************************************************)
MaxWeeks == 3

\* the weekly dates of the table
AllWeekDates == <<20200101, 20200108, 20200115, 20200122, 20200129>>
WeekDates(n) == SubSeq(AllWeekDates, 1, n)

EurRates == {None, Some(-100), Some(0), Some(100), Some(110), Some(112)}
JpyRates == {None, Some(100)}

\* the tables the transformer may be given: every series index-aligned with dates
RateTables ==
    UNION { { [c \in {"EUR", "JPY"} |-> IF c = "EUR" THEN e ELSE j] :
                e \in [1..n -> EurRates], j \in [1..n -> JpyRates] } : n \in 0..MaxWeeks }

\* (math.log(current) - math.log(previous)) * 100, kept as its two operands
log_change(previous, current) == <<"ln", current, previous>>

\* the value appended for a row, given the loop's "previous"
LogRowChange(previous, current) ==
    IF current = None \/ previous = None THEN None
    ELSE IF Val(previous) <= 0 \/ Val(current) <= 0 THEN None
    ELSE Some(log_change(Val(previous), Val(current)))

\* "previous = current", on every path through the loop body
NextPreviousCarry(previous, current) == IF current = None THEN previous ELSE current

NextPrevious(previous, current) == current

\* for date_value, current in zip(dates, values): ...
RECURSIVE LogSeries(_, _, _, _)
LogSeries(ds, values, previous, i) ==
    IF i > Len(ds) \/ i > Len(values) THEN <<>>
    ELSE <<<<ds[i], LogRowChange(previous, values[i])>>>>
         \o LogSeries(ds, values, NextPrevious(previous, values[i]), i + 1)

compute_weekly_log_changes(ds, d) ==
    [currency \in DOMAIN d |-> LogSeries(ds, d[currency], None, 1)]

(***************************************************************************)
(* The percent-change variant of the transformer.  Its code is not among   *)
(* the sources; it is modelled from the specification (section 4.3).       *)
(* A percent change is the exact fraction <<numerator, denominator>>, with *)
(* a positive denominator.                                                 *)
(***************************************************************************)
\* (current / previous - 1) * 100
percent_change(previous, current) ==
    IF previous > 0 THEN <<100 * (current - previous), previous>>
    ELSE <<100 * (previous - current), 0 - previous>>

PercentRowChange(previous, current) ==
    IF current = None \/ previous = None THEN None
    ELSE IF Val(previous) = 0 THEN None
    ELSE Some(percent_change(Val(previous), Val(current)))

RECURSIVE PercentSeries(_, _, _, _)
PercentSeries(ds, values, previous, i) ==
    IF i > Len(ds) \/ i > Len(values) THEN <<>>
    ELSE <<<<ds[i], PercentRowChange(previous, values[i])>>>>
         \o PercentSeries(ds, values, values[i], i + 1)

compute_weekly_percent_changes(ds, d) ==
    [currency \in DOMAIN d |-> PercentSeries(ds, d[currency], None, 1)]

(***************************************************************************)
(* exchange_rate_analysis.summarize_percent_changes                        *)
(***************************************************************************)
\* the closed window: both bounds inclusive, a bound of None is no bound
InWindowOpenStart(date_value, start, end) ==
    /\ (start = None \/ date_value > Val(start))
    /\ (end = None \/ date_value <= Val(end))

InWindow(date_value, start, end) ==
    /\ (start = None \/ date_value >= Val(start))
    /\ (end = None \/ date_value <= Val(end))

\* the list comprehension: the present values dated inside the window, in order
RECURSIVE QualifyingValues(_, _, _)
QualifyingValues(series, start, end) ==
    IF series = <<>> THEN <<>>
    ELSE (IF Present(Head(series)[2]) /\ InWindow(Head(series)[1], start, end)
          THEN <<Val(Head(series)[2])>> ELSE <<>>)
         \o QualifyingValues(Tail(series), start, end)

\* if len(values) < 2: continue
TooFew(values) == Len(values) < 2

\* statistics.fmean / statistics.stdev raise StatisticsError on too few points
FmeanRaises(values) == Len(values) < 1
StdevRaises(values) == Len(values) < 2

\* the statistics of a series, kept as the calls made on the value list
SeriesStats(values) ==
    [average_weekly_percent_change |-> <<"fmean", values>>,
     std_dev_weekly_percent_change |-> <<"stdev", values>>]

Summarized(pc, start, end) ==
    {c \in DOMAIN pc : ~TooFew(QualifyingValues(pc[c], start, end))}

summarize_percent_changes(pc, start, end) ==
    [c \in Summarized(pc, start, end) |-> SeriesStats(QualifyingValues(pc[c], start, end))]

SummarizeRaises(pc, start, end) ==
    \E c \in Summarized(pc, start, end) :
        \/ FmeanRaises(QualifyingValues(pc[c], start, end))
        \/ StdevRaises(QualifyingValues(pc[c], start, end))

(***************************************************************************)
(* exchange_rate_analysis.write_percent_changes_csv                        *)
(***************************************************************************)
\* the digits after the decimal point of r / d, n of them, and the remainder left
RECURSIVE FracDigits(_, _, _, _)
FracDigits(r, d, n, acc) ==
    IF n = 0 THEN <<acc, r>>
    ELSE FracDigits((r * 10) % d, d, n - 1, acc * 10 + ((r * 10) \div d))

Abs(x) == IF x < 0 THEN 0 - x ELSE x

\* f"{value:.6f}": the value in millionths, rounded half to even
Format6Truncating(q) ==
    LET a  == Abs(q[1])
        fr == FracDigits(a % q[2], q[2], 6, 0)
        m  == (a \div q[2]) * 1000000 + fr[1]
    IN  IF q[1] < 0 THEN 0 - m ELSE m

Format6(q) ==
    LET a  == Abs(q[1])
        fr == FracDigits(a % q[2], q[2], 6, 0)
        m  == (a \div q[2]) * 1000000 + fr[1]
        up == \/ 2 * fr[2] > q[2]
              \/ (2 * fr[2] = q[2] /\ m % 2 = 1)
        r  == IF up THEN m + 1 ELSE m
    IN  IF q[1] < 0 THEN 0 - r ELSE r

\* one output row per date: the date, then "" (None) or the formatted change
ChangesCsvRows(ds, pc, names) ==
    [idx \in 1..Len(ds) |->
        <<ds[idx]>> \o
        [k \in 1..Len(names) |->
            LET value == pc[names[k]][idx][2]
            IN  IF value = None THEN None ELSE Some(Format6(Val(value)))]]

\* list(percent_changes.keys()): the columns in insertion order
CurrencyOrder == <<"EUR", "JPY">>

(***************************************************************************)
(* main(): the table goes through the transformer, the two summaries and   *)
(* the change-series CSV                                                   *)
(***************************************************************************)
CrisisStart == 20080101
CrisisEnd == 20091231

IdleMain ==
    /\ dates = <<>> /\ data = <<>> /\ percent_changes = <<>>
    /\ start_date = None /\ end_date = None /\ summary = <<>>
    /\ summary_full = <<>> /\ summary_crisis = <<>> /\ changes_csv = <<>>
    /\ correlation_csv = <<>>
    /\ tpc = "idle"

InitTable ==
    /\ data \in RateTables
    /\ dates = WeekDates(Len(data["EUR"]))
    /\ percent_changes = <<>>
    /\ start_date = None /\ end_date = None /\ summary = <<>>
    /\ summary_full = <<>> /\ summary_crisis = <<>> /\ changes_csv = <<>>
    /\ correlation_csv = <<>>
    /\ tpc = "loaded"

ComputeLogChanges ==
    /\ tpc = "loaded"
    /\ percent_changes' = compute_weekly_log_changes(dates, data)
    /\ tpc' = "computed"
    /\ UNCHANGED <<dates, data, start_date, end_date, summary, summary_full,
                   summary_crisis, changes_csv, correlation_csv, colVars, sheetVars, loadVars, plotVars>>

ComputePercentChanges ==
    /\ tpc = "loaded"
    /\ percent_changes' = compute_weekly_percent_changes(dates, data)
    /\ tpc' = "computed"
    /\ UNCHANGED <<dates, data, start_date, end_date, summary, summary_full,
                   summary_crisis, changes_csv, correlation_csv, colVars, sheetVars, loadVars, plotVars>>

SummarizeFull ==
    /\ tpc = "computed"
    /\ IF SummarizeRaises(percent_changes, None, None)
       THEN tpc' = "raised" /\ UNCHANGED summary_full
       ELSE /\ summary_full' = summarize_percent_changes(percent_changes, None, None)
            /\ tpc' = "summarized_full"
    /\ UNCHANGED <<dates, data, percent_changes, start_date, end_date, summary,
                   summary_crisis, changes_csv, correlation_csv, colVars, sheetVars, loadVars, plotVars>>

SummarizeCrisis ==
    /\ tpc = "summarized_full"
    /\ IF SummarizeRaises(percent_changes, Some(CrisisStart), Some(CrisisEnd))
       THEN tpc' = "raised" /\ UNCHANGED summary_crisis
       ELSE /\ summary_crisis' =
                  summarize_percent_changes(percent_changes, Some(CrisisStart), Some(CrisisEnd))
            /\ tpc' = "summarized"
    /\ UNCHANGED <<dates, data, percent_changes, start_date, end_date, summary,
                   summary_full, changes_csv, correlation_csv, colVars, sheetVars, loadVars, plotVars>>

WritePercentChangesCsv ==
    /\ tpc = "summarized"
    /\ changes_csv' = ChangesCsvRows(dates, percent_changes, CurrencyOrder)
    /\ tpc' = "done"
    /\ UNCHANGED <<dates, data, percent_changes, start_date, end_date, summary,
                   summary_full, summary_crisis, correlation_csv, colVars, sheetVars, loadVars, plotVars>>

(***************************************************************************)
(* summarize_percent_changes over a date window                            *)
(***************************************************************************)
EurChanges == {None, Some(1), Some(2)}
JpyChanges == {None, Some(1), Some(2)}

\* the change series a table of n weekly dates may have (integer changes)
ChangeMaps ==
    UNION { { [c \in {"EUR", "JPY"} |->
                 [i \in 1..n |-> <<WeekDates(n)[i], IF c = "EUR" THEN e[i] ELSE j[i]>>]] :
              e \in [1..n -> EurChanges], j \in [1..n -> JpyChanges] } : n \in 0..MaxWeeks }

\* the window bounds a caller may pass
WindowBounds == {None} \cup {Some(d) : d \in Range(WeekDates(MaxWeeks))}

InitChanges ==
    /\ percent_changes \in ChangeMaps
    /\ dates = <<>> /\ data = <<>>
    /\ start_date = None /\ end_date = None /\ summary = <<>>
    /\ summary_full = <<>> /\ summary_crisis = <<>> /\ changes_csv = <<>>
    /\ correlation_csv = <<>>
    /\ tpc = "computed"

InitWindow ==
    /\ percent_changes \in ChangeMaps
    /\ start_date \in WindowBounds
    /\ end_date \in WindowBounds
    /\ dates = <<>> /\ data = <<>> /\ summary = <<>>
    /\ summary_full = <<>> /\ summary_crisis = <<>> /\ changes_csv = <<>>
    /\ correlation_csv = <<>>
    /\ tpc = "computed"

SummarizeWindow ==
    /\ tpc = "computed"
    /\ IF SummarizeRaises(percent_changes, start_date, end_date)
       THEN tpc' = "raised" /\ UNCHANGED summary
       ELSE /\ summary' = summarize_percent_changes(percent_changes, start_date, end_date)
            /\ tpc' = "summarized"
    /\ UNCHANGED <<dates, data, percent_changes, start_date, end_date, summary_full,
                   summary_crisis, changes_csv, correlation_csv, colVars, sheetVars,
                   loadVars, plotVars>>

(***************************************************************************)
(* exchange_rate_analysis.write_correlation_matrix_csv                     *)
(***************************************************************************)
\* [value for _, value in series]
SeriesValues(series) == [i \in 1..Len(series) |-> series[i][2]]

\* the pairs of two series each filtered on its own
PairedSeparately(left, right) ==
    LET l == SelectSeq(left, Present)
        r == SelectSeq(right, Present)
        n == IF Len(l) <= Len(r) THEN Len(l) ELSE Len(r)
    IN  [i \in 1..n |-> <<Val(l[i]), Val(r[i])>>]

\* zip(base_values, other_values), keeping the pairs with both values present
RECURSIVE Paired(_, _)
Paired(left, right) ==
    IF left = <<>> \/ right = <<>> THEN <<>>
    ELSE (IF Head(left) # None /\ Head(right) # None
          THEN <<<<Val(Head(left)), Val(Head(right))>>>> ELSE <<>>)
         \o Paired(Tail(left), Tail(right))

RECURSIVE SeqSum(_)
SeqSum(s) == IF s = <<>> THEN 0 ELSE Head(s) + SeqSum(Tail(s))

\* n * sum((x - mean(x)) * (y - mean(y))): the co-deviation of two samples
CoDeviation(xs, ys) ==
    Len(xs) * SeqSum([i \in 1..Len(xs) |-> xs[i] * ys[i]]) - SeqSum(xs) * SeqSum(ys)

\* statistics.correlation raises StatisticsError: fewer than two points, or
\* one of the inputs is constant
CorrelationRaises(xs, ys) ==
    \/ Len(xs) # Len(ys)
    \/ Len(xs) < 2
    \/ CoDeviation(xs, xs) = 0
    \/ CoDeviation(ys, ys) = 0

\* Pearson's r = sxy / sqrt(sxx * syy), kept as <<sxy, sxx, syy>>
correlation(xs, ys) == <<CoDeviation(xs, ys), CoDeviation(xs, xs), CoDeviation(ys, ys)>>

\* one cell of the matrix: None is the blank field
CorrelationCell(base_values, other_values) ==
    LET paired       == Paired(base_values, other_values)
        left_values  == [i \in 1..Len(paired) |-> paired[i][1]]
        right_values == [i \in 1..Len(paired) |-> paired[i][2]]
    IN  IF Len(paired) < 2 THEN None
        ELSE IF CorrelationRaises(left_values, right_values) THEN None
        ELSE Some(correlation(left_values, right_values))

\* the data rows of the file: for each currency, its cell against each currency
CorrelationRows(pc, names) ==
    [a \in 1..Len(names) |->
        [b \in 1..Len(names) |->
            CorrelationCell(SeriesValues(pc[names[a]]), SeriesValues(pc[names[b]]))]]

WriteCorrelationMatrixCsv ==
    /\ tpc = "computed"
    /\ correlation_csv' = CorrelationRows(percent_changes, CurrencyOrder)
    /\ tpc' = "written"
    /\ UNCHANGED <<dates, data, percent_changes, start_date, end_date, summary,
                   summary_full, summary_crisis, changes_csv, colVars, sheetVars,
                   loadVars, plotVars>>

(***************************************************************************)
(* exchange_rate_analysis.plot_series_svg and plot_exchange_rates          *)
(*                                                                         *)
(* files maps a chart, named by the currency of plots_dir/<currency>.svg,  *)
(* to what the file holds; written is the set of charts the run wrote.     *)
(***************************************************************************)
\* points = [(idx, value) for idx, value in enumerate(values) if value is not None]
RECURSIVE PointsFrom(_, _)
PointsFrom(values, idx) ==
    IF values = <<>> THEN <<>>
    ELSE (IF Head(values) # None THEN <<<<idx, Val(Head(values))>>>> ELSE <<>>)
         \o PointsFrom(Tail(values), idx + 1)

Points(values) == PointsFrom(values, 0)

\* "if not points: return"
NothingToPlotNoValues(values) == values = <<>>

NothingToPlot(values) == Points(values) = <<>>

\* a chart left by an earlier run
StaleChart == [title |-> "stale", points |-> <<>>]

\* the chart of a series: its title and the points of its polyline
Chart(currency, values) == [title |-> currency, points |-> Points(values)]

IdleRender ==
    chart_dates = <<>> /\ chart_values = <<>> /\ svg_file = None /\ rpc = "idle"

IdlePlot ==
    files = <<>> /\ written = {} /\ plot_next = 0 /\ ppc = "idle" /\ IdleRender

InitPlot ==
    /\ files \in { <<>>, [c \in {"EUR"} |-> StaleChart], [c \in {"EUR", "JPY"} |-> StaleChart] }
    /\ written = {}
    /\ plot_next = 1
    /\ ppc = "plotting"
    /\ IdleRender

\* one turn of "for currency, values in data.items()": a plot_series_svg call
PlotSeries ==
    /\ ppc = "plotting"
    /\ plot_next <= Len(CurrencyOrder)
    /\ LET currency == CurrencyOrder[plot_next]
           values   == data[currency]
       IN  IF NothingToPlot(values)
           THEN /\ plot_next' = plot_next + 1
                /\ UNCHANGED <<files, written, ppc>>
           ELSE IF Points(values) = <<>>
           THEN \* min() of an empty list raises ValueError
                /\ ppc' = "raised"
                /\ UNCHANGED <<files, written, plot_next>>
           ELSE /\ files' = DictSet(files, currency, Chart(currency, values))
                /\ written' = written \cup {currency}
                /\ plot_next' = plot_next + 1
                /\ UNCHANGED ppc
    /\ UNCHANGED <<mainVars, colVars, sheetVars, loadVars, renderVars>>

ReturnPlots ==
    /\ ppc = "plotting"
    /\ plot_next > Len(CurrencyOrder)
    /\ ppc' = "done"
    /\ UNCHANGED <<files, written, plot_next, mainVars, colVars, sheetVars,
                   loadVars, renderVars>>

(***************************************************************************)
(* exchange_rate_analysis.plot_series_svg: the rendering arithmetic        *)
(*                                                                         *)
(* A float is <<hi, lo>>, standing for hi * 2^54 + lo / 100.  From 2^54 on *)
(* neighbouring doubles are at least 4 apart, so a float with hi # 0 has   *)
(* lo = 0, and adding or subtracting 1.0 rounds back to the same double.   *)
(***************************************************************************)
FloatZero == <<0, 0>>

FloatLess(a, b) == a[1] < b[1] \/ (a[1] = b[1] /\ a[2] < b[2])

\* min(y_values), max(y_values)
FloatMin(S) == CHOOSE a \in S : \A b \in S : a = b \/ FloatLess(a, b)
FloatMax(S) == CHOOSE a \in S : \A b \in S : a = b \/ FloatLess(b, a)

\* "min_y -= 1" (k = -1) and "max_y += 1" (k = 1), rounded to the nearest double
FloatAddInt(a, k) == IF a[1] # 0 THEN a ELSE <<0, a[2] + 100 * k>>

\* a - b, rounded to the nearest double
FloatSub(a, b) == IF a[1] = b[1] THEN <<0, a[2] - b[2]>> ELSE <<a[1] - b[1], 0>>

\* math.isclose(a, b): abs(a - b) <= rel_tol * max(abs(a), abs(b)), rel_tol = 1e-09
RelTolInverse == 1000000000

isclose(a, b) ==
    IF a[1] = b[1]
    THEN Abs(a[2] - b[2]) <= Max2(Abs(a[2]), Abs(b[2])) \div RelTolInverse
    ELSE Abs(a[1] - b[1]) <= Max2(Abs(a[1]), Abs(b[1])) \div RelTolInverse

\* the canvas: the defaults of plot_series_svg
width == 1200
height == 600
padding == 50
plot_width == width - 2 * padding
plot_height == height - 2 * padding

IntMin(S) == CHOOSE a \in S : \A b \in S : a <= b
IntMax(S) == CHOOSE a \in S : \A b \in S : b <= a

min_x(points) == IntMin({points[i][1] : i \in 1..Len(points)})
max_x(points) == IntMax({points[i][1] : i \in 1..Len(points)})

\* min_y, max_y after "if math.isclose(min_y, max_y): min_y -= 1; max_y += 1"
ValueRange(points) ==
    LET y_values == {points[i][2] : i \in 1..Len(points)}
        lo == FloatMin(y_values)
        hi == FloatMax(y_values)
    IN  IF isclose(lo, hi) THEN <<FloatAddInt(lo, -1), FloatAddInt(hi, 1)>>
        ELSE <<lo, hi>>

min_y(points) == ValueRange(points)[1]
max_y(points) == ValueRange(points)[2]

\* scale_x as the exact fraction <<numerator, denominator>> of a pixel
scale_x(x_value, points) ==
    IF max_x(points) = min_x(points)
    THEN <<2 * padding + plot_width, 2>>
    ELSE << padding * (max_x(points) - min_x(points))
               + (x_value - min_x(points)) * plot_width,
            max_x(points) - min_x(points) >>

\* scale_y divides by max_y - min_y: a float division by 0.0 raises
ScaleYRaises(points) == FloatSub(max_y(points), min_y(points)) = FloatZero

\* scale_y(y_value) = padding + (max_y - y_value) / (max_y - min_y) * plot_height,
\* kept as the two floats of its quotient
scale_y(y_value, points) ==
    <<FloatSub(max_y(points), y_value), FloatSub(max_y(points), min_y(points))>>

\* f"{value:.2f}" of a fraction: the value in hundredths, rounded half to even
Format2(q) ==
    LET a  == Abs(q[1])
        fr == FracDigits(a % q[2], q[2], 2, 0)
        m  == (a \div q[2]) * 100 + fr[1]
        up == \/ 2 * fr[2] > q[2]
              \/ (2 * fr[2] = q[2] /\ m % 2 = 1)
        r  == IF up THEN m + 1 ELSE m
    IN  IF q[1] < 0 THEN 0 - r ELSE r

\* polyline_points: one "x,y" per point, in index order
polyline_points(points) ==
    [i \in 1..Len(points) |->
        [x |-> Format2(scale_x(points[i][1], points)),
         y |-> scale_y(points[i][2], points)]]

\* date.year of a date yyyymmdd
year(date_value) == date_value \div 10000

\* year_ticks: every fifth year from the multiple of five at or below the
\* first date's year up to the last date's year, without a tick before the
\* first date's year
year_ticks(ds) ==
    LET start_year      == year(ds[1])
        end_year        == year(ds[Len(ds)])
        tick_start_year == (start_year \div 5) * 5
        ticks == [k \in 1..((end_year - tick_start_year) \div 5 + 1) |->
                     tick_start_year + 5 * (k - 1)]
    IN  IF ticks # <<>> /\ ticks[1] < start_year THEN Tail(ticks) ELSE ticks

\* tick_dates = [index for index, date_value in enumerate(dates) if date_value.year == year]
tick_dates(ds, y) == {index \in 0..(Len(ds) - 1) : year(ds[index + 1]) = y}

\* year_tick_labels: for each tick year with a date, the year and the scaled
\* index of its first date
RECURSIVE YearTickLabels(_, _, _)
YearTickLabels(ticks, ds, points) ==
    IF ticks = <<>> THEN <<>>
    ELSE (IF tick_dates(ds, Head(ticks)) = {} THEN <<>>
          ELSE << [year |-> Head(ticks),
                   x_position |->
                       Format2(scale_x(IntMin(tick_dates(ds, Head(ticks))), points))] >>)
         \o YearTickLabels(Tail(ticks), ds, points)

year_tick_labels(ds, points) == YearTickLabels(year_ticks(ds), ds, points)

\* y_ticks: min_y + y_step * i for i in range(y_tick_count + 1), each kept as
\* <<i, y_tick_count>>
y_tick_count == 10
y_tick_labels == [k \in 1..(y_tick_count + 1) |-> <<k - 1, y_tick_count>>]

\* svg_content: the polyline, the vertical year gridlines with their labels
\* (both drawn at x_position), the horizontal gridlines, title and range
svg_content(ds, values, currency) ==
    [title            |-> currency,
     polyline_points  |-> polyline_points(Points(values)),
     year_tick_labels |-> year_tick_labels(ds, Points(values)),
     y_tick_labels    |-> y_tick_labels,
     max_y            |-> max_y(Points(values)),
     min_y            |-> min_y(Points(values))]

\* the weekly dates a chart is drawn from: an increasing choice among these
ChartDates == <<20191225, 20200101, 20200108, 20250101, 20250108>>

Ascending(picks) ==
    \A i \in 1..(Len(picks) - 1) : picks[i] < picks[i + 1]

\* the values of a chart: absent, ordinary rates, and a rate of 2^54
ChartValues == {None, Some(<<0, 100>>), Some(<<0, 150>>), Some(<<1, 0>>)}

InitRender ==
    /\ \E n \in 1..MaxWeeks :
          /\ \E picks \in [1..n -> 1..Len(ChartDates)] :
                /\ Ascending(picks)
                /\ chart_dates = [i \in 1..n |-> ChartDates[picks[i]]]
          /\ chart_values \in [1..n -> ChartValues]
    /\ svg_file = None
    /\ rpc = "call"

\* plot_series_svg(dates, values, currency, output_path)
PlotSeriesSvg ==
    /\ rpc = "call"
    /\ IF NothingToPlot(chart_values)
       THEN /\ rpc' = "returned"
            /\ UNCHANGED svg_file
       ELSE IF ScaleYRaises(Points(chart_values))
       THEN /\ rpc' = "ZeroDivisionError"
            /\ UNCHANGED svg_file
       ELSE /\ svg_file' = Some(svg_content(chart_dates, chart_values, "EUR"))
            /\ rpc' = "written"
    /\ UNCHANGED <<chart_dates, chart_values, files, written, plot_next, ppc,
                   mainVars, colVars, sheetVars, loadVars>>

(***************************************************************************)
(* Specification of the column decoder                                     *)
(***************************************************************************)
InitColumn == InitCol /\ IdleSheet /\ IdleMain /\ IdleLoad /\ IdlePlot
NextColumn == ColumnIndex
SpecColumn == InitColumn /\ [][NextColumn]_vars

(***************************************************************************)
(* Specification of the worksheet extractor                                *)
(***************************************************************************)
InitExtract == InitSheet /\ IdleCol /\ IdleMain /\ IdleLoad /\ IdlePlot
NextExtract == BeginRow \/ ReadCell \/ EndRow \/ ReturnSheetCells \/ LoadGrid
SpecSheet == InitExtract /\ [][NextExtract]_vars

\* the inverse numbering: offset n written in letters (0 -> A, 26 -> AA)
RECURSIVE ColumnLetters(_)
ColumnLetters(n) ==
    IF n < 0 THEN <<>>
    ELSE ColumnLetters((n \div 26) - 1) \o <<UpperLetters[(n % 26) + 1]>>

DocumentedColumns ==
    { <<<<"A">>, 0>>, <<<<"Z">>, 25>>, <<<<"A","A">>, 26>>,
      <<<<"A","Z">>, 51>>, <<<<"B","A">>, 52>> }

\* C5: the decoded offset of a reference is the 1-indexed base-26 value of its
\* letters minus one: the documented examples decode as documented, and the
\* offset written back in letters is the reference's own letters in upper
\* case, whatever its row digits and letter case - so two different letter
\* strings never share an offset.
C5_ColumnBijection ==
    colpc = "done" =>
        /\ col_idx >= 0
        /\ ColumnLetters(col_idx) = UpperStr(RefLetters(cell_ref))
        /\ \A ex \in DocumentedColumns :
              UpperStr(RefLetters(cell_ref)) = ex[1] => col_idx = ex[2]

C5_Witness ==
    colpc = "done" /\ cell_ref = <<"b", "a", "1", "2">> /\ col_idx = 52

(***************************************************************************)
(* Specification of the log-change transformer                             *)
(***************************************************************************)
InitTransform == InitTable /\ IdleCol /\ IdleSheet /\ IdleLoad /\ IdlePlot
NextTransform == ComputeLogChanges
SpecTransform == InitTransform /\ [][NextTransform]_vars

(***************************************************************************)
(* Specification of the percent-change pipeline                            *)
(***************************************************************************)
InitPipeline == InitTable /\ IdleCol /\ IdleSheet /\ IdleLoad /\ IdlePlot
NextPipeline ==
    ComputePercentChanges \/ SummarizeFull \/ SummarizeCrisis \/ WritePercentChangesCsv
SpecPipeline == InitPipeline /\ [][NextPipeline]_vars

(***************************************************************************)
(* Specification of the CSV loader                                         *)
(***************************************************************************)
InitLoader ==
    /\ InitLoad /\ IdleCol /\ IdleSheet /\ IdlePlot
    /\ dates = <<>> /\ data = <<>> /\ percent_changes = <<>>
    /\ start_date = None /\ end_date = None /\ summary = <<>>
    /\ summary_full = <<>> /\ summary_crisis = <<>> /\ changes_csv = <<>>
    /\ correlation_csv = <<>>
    /\ tpc = "idle"
NextLoader == OpenCsv \/ ReadCsvRow \/ ReturnLoad
SpecLoader == InitLoader /\ [][NextLoader]_vars

(***************************************************************************)
(* Specifications of the windowed summary, the correlation matrix and the  *)
(* charts                                                                  *)
(***************************************************************************)
InitSummary == InitWindow /\ IdleCol /\ IdleSheet /\ IdleLoad /\ IdlePlot
NextSummary == SummarizeWindow
SpecSummary == InitSummary /\ [][NextSummary]_vars

InitCorrelation == InitChanges /\ IdleCol /\ IdleSheet /\ IdleLoad /\ IdlePlot
NextCorrelation == WriteCorrelationMatrixCsv
SpecCorrelation == InitCorrelation /\ [][NextCorrelation]_vars

InitCharts == InitTable /\ InitPlot /\ IdleCol /\ IdleSheet /\ IdleLoad
NextCharts == PlotSeries \/ ReturnPlots
SpecPlot == InitCharts /\ [][NextCharts]_vars

(***************************************************************************)
(* Specification of a single chart: one plot_series_svg call               *)
(***************************************************************************)
InitChart ==
    /\ InitRender
    /\ files = <<>> /\ written = {} /\ plot_next = 0 /\ ppc = "idle"
    /\ IdleCol /\ IdleSheet /\ IdleMain /\ IdleLoad
NextChart == PlotSeriesSvg
SpecRender == InitChart /\ [][NextChart]_vars

(***************************************************************************)
(* Claims about the worksheet extractor                                    *)
(***************************************************************************)
Grid == IF sheetpc = "done" /\ sheet_rows # <<>> THEN <<header>> \o rows ELSE <<>>

\* every column offset a referenced cell of the sheet decoded to
SeenOffsets == UNION {DOMAIN sheet_rows[i] : i \in 1..Len(sheet_rows)}

GridRectangular ==
    /\ Len(Grid) = Len(sheet_rows)
    /\ \A i \in 1..Len(Grid) :
          /\ Len(Grid[i]) = column_count
          /\ \A c \in 0..(column_count - 1) :
                Grid[i][c + 1] = IF c \in DOMAIN sheet_rows[i] THEN sheet_rows[i][c] ELSE ""
          /\ DOMAIN sheet_rows[i] \subseteq 0..(column_count - 1)

\* C3 (as stated): the header and every data row have the same length, which
\* is 1 + the maximum decoded column offset seen in the sheet, also when no
\* row declares a referenced cell.
C3_WidthIsOnePlusMaxSeen ==
    (sheetpc = "done" /\ sheet_rows # <<>>) =>
        /\ GridRectangular
        /\ \E m \in SeenOffsets :
              /\ \A c \in SeenOffsets : c <= m
              /\ column_count = 1 + m

\* C3 (amended): the header and every data row have the same length, with ""
\* for every cell a row does not declare; that length is 1 + the maximum
\* decoded column offset seen in the sheet when some referenced cell is
\* declared, and 1 (a single "" column) when none is.
C3_Rectangular ==
    (sheetpc = "done" /\ sheet_rows # <<>>) =>
        /\ GridRectangular
        /\ column_count = IF SeenOffsets = {} THEN 1 ELSE 1 + SetMax(SeenOffsets)

C3_Witness ==
    /\ sheetpc = "done"
    /\ Len(sheet_rows) = 2
    /\ DOMAIN sheet_rows[1] = {0}
    /\ DOMAIN sheet_rows[2] = {2}
    /\ header = <<"x", "", "">>
    /\ rows = << <<"", "", "y">> >>

Perms(n) == {p \in [1..n -> 1..n] : \A i, j \in 1..n : i # j => p[i] # p[j]}

Permuted(s, p) == [i \in 1..Len(s) |-> s[p[i]]]

Referenced(cells) == SelectSeq(cells, LAMBDA c : c.r # <<>>)

DistinctRefs(cells) ==
    \A i, j \in 1..Len(cells) : i # j => cells[i].r # cells[j].r

\* C4: a row's cells land at the decoded offset of their reference whatever
\* the order of declaration - every permutation of the declarations of a row
\* (with distinct references) gives the same row - and the rows of the grid
\* are the rows of the XML in their order.
C4_KeyedByColumn ==
    /\ [](DistinctRefs(Referenced(decl)) =>
            /\ \A p \in Perms(Len(decl)) : RowCellsOf(<<>>, Permuted(decl, p)) = row_cells
            /\ \A i \in 1..Len(decl) :
                  decl[i].r # <<>> =>
                      /\ _column_index(decl[i].r) \in DOMAIN row_cells
                      /\ row_cells[_column_index(decl[i].r)] = CellValue(decl[i]))
    /\ [](sheetpc = "done" =>
            /\ Len(Grid) = Len(sheet_rows)
            /\ \A i \in 1..Len(Grid) : \A c \in DOMAIN sheet_rows[i] :
                  c + 1 \in DOMAIN Grid[i] /\ Grid[i][c + 1] = sheet_rows[i][c])
    /\ [][(sheetpc = "cells" /\ sheetpc' = "rows") =>
            sheet_rows' = Append(sheet_rows, row_cells)]_vars

C4_Witness ==
    /\ sheetpc = "done"
    /\ decl = << [r |-> <<"C", "1">>, t |-> "s", v |-> "0"],
                 [r |-> <<"A", "1">>, t |-> "n", v |-> "x"] >>
    /\ header = <<"x", "", "">>
    /\ rows = << <<"x", "", "y">> >>

(***************************************************************************)
(* Claims about the change-series transformer                              *)
(***************************************************************************)
Usable(x) == Present(x) /\ Val(x) > 0

UndefinedRows(series) == {i \in 1..Len(series) : series[i][2] = None}

\* C1: the log change of row i is present exactly when i is not the first row
\* and the values of rows i-1 and i are both present and > 0; it is computed
\* from the immediately preceding row, never from an earlier usable one, so
\* [100, None, 110] gives [None, None, None] and one absent row k among usable
\* rows leaves exactly rows k and k+1 (and the first row) undefined.
C1_LookBackOneRow ==
    tpc = "computed" =>
        \A c \in DOMAIN data :
            LET v == data[c]
                s == percent_changes[c]
            IN  /\ Len(s) = Len(v)
                /\ \A i \in 1..Len(v) :
                      /\ s[i][1] = dates[i]
                      /\ Present(s[i][2]) <=> (i > 1 /\ Usable(v[i - 1]) /\ Usable(v[i]))
                      /\ Present(s[i][2]) =>
                            Val(s[i][2]) = log_change(Val(v[i - 1]), Val(v[i]))
                /\ v = <<Some(100), None, Some(110)>> =>
                      s = <<<<dates[1], None>>, <<dates[2], None>>, <<dates[3], None>>>>
                /\ \A k \in 1..Len(v) :
                      (v[k] = None /\ \A j \in 1..Len(v) : j # k => Usable(v[j])) =>
                          UndefinedRows(s) = {1, k, k + 1} \cap (1..Len(v))

C1_Witness ==
    /\ tpc = "computed"
    /\ data["EUR"] = <<Some(100), None, Some(110)>>
    /\ UndefinedRows(percent_changes["EUR"]) = {1, 2, 3}
    /\ data["JPY"] = <<Some(100), Some(100), Some(100)>>
    /\ UndefinedRows(percent_changes["JPY"]) = {1}

\* the EUR column of the change-series CSV
EurColumn == [i \in 1..Len(changes_csv) |-> changes_csv[i][2]]

C6_DateColumnByName ==
    lpc = "done" =>
        /\ DOMAIN data = Range(fieldnames) \ {find_date_column(fieldnames)}
        /\ Len(dates) = date_hits

\* C7: after the load every series is as long as dates, and that length is
\* the number of rows whose date field is non-empty, not "(auto)" and a
\* month/day/year date.
C7_SeriesAligned ==
    lpc \in {"reading", "done"} =>
        /\ \A name \in DOMAIN data : Len(data[name]) = Len(dates)
        /\ Len(dates) = accepted

(***************************************************************************)
(* Claims about the statistics aggregator                                  *)
(***************************************************************************)
\* the rows of a series that hold a change dated inside the closed window
QualifyingRows(series) ==
    {i \in 1..Len(series) :
        /\ series[i][2] # None
        /\ (start_date # None => series[i][1] >= Val(start_date))
        /\ (end_date # None => series[i][1] <= Val(end_date))}

\* C8: the summary has an entry for a series exactly when at least two of its
\* change values are present and dated inside the closed window (a missing
\* bound is no bound); a series with fewer is absent from the mapping, and the
\* call does not fail.
C8_SummaryNeedsTwo ==
    tpc \in {"summarized", "raised"} =>
        /\ tpc = "summarized"
        /\ \A c \in DOMAIN percent_changes :
              c \in DOMAIN summary <=> Cardinality(QualifyingRows(percent_changes[c])) >= 2
        /\ \A c \in DOMAIN summary :
              Len(summary[c].average_weekly_percent_change[2])
                  = Cardinality(QualifyingRows(percent_changes[c]))

C8_Witness ==
    /\ tpc = "summarized"
    /\ start_date = Some(20200101)
    /\ end_date = Some(20200108)
    /\ SeriesValues(percent_changes["EUR"]) = <<Some(1), Some(2), Some(2)>>
    /\ SeriesValues(percent_changes["JPY"]) = <<None, Some(1), Some(2)>>
    /\ DOMAIN summary = {"EUR"}

\* the positions where both series hold a change
PairedRows(pc, a, b) ==
    {i \in 1..Len(pc[a]) : pc[a][i][2] # None /\ pc[b][i][2] # None}

ConstantOn(pc, a, S) == \A i, j \in S : pc[a][i][2] = pc[a][j][2]

\* the sum of the changes of series a over the rows of S
RECURSIVE SumOn(_, _, _)
SumOn(pc, a, S) ==
    IF S = {} THEN 0
    ELSE LET i == CHOOSE x \in S : TRUE
         IN  Val(pc[a][i][2]) + SumOn(pc, a, S \ {i})

\* the sum of the products of the changes of series a and b over the rows of S
RECURSIVE SumProductOn(_, _, _, _)
SumProductOn(pc, a, b, S) ==
    IF S = {} THEN 0
    ELSE LET i == CHOOSE x \in S : TRUE
         IN  Val(pc[a][i][2]) * Val(pc[b][i][2]) + SumProductOn(pc, a, b, S \ {i})

\* n * sum(x * y) - sum(x) * sum(y) over the rows of S
CoDeviationOn(pc, a, b, S) ==
    Cardinality(S) * SumProductOn(pc, a, b, S) - SumOn(pc, a, S) * SumOn(pc, b, S)

\* C9: the cell of an ordered pair of series, a series against itself
\* included, is blank when fewer than two positions hold a change of both or
\* when either paired sample is constant, and otherwise is the coefficient of
\* exactly those positions; no case raises an error.
C9_CorrelationCells ==
    tpc \in {"written", "raised"} =>
        /\ tpc = "written"
        /\ \A a, b \in 1..Len(CurrencyOrder) :
              LET x    == CurrencyOrder[a]
                  y    == CurrencyOrder[b]
                  S    == PairedRows(percent_changes, x, y)
                  cell == correlation_csv[a][b]
              IN  /\ (Cardinality(S) < 2
                        \/ ConstantOn(percent_changes, x, S)
                        \/ ConstantOn(percent_changes, y, S)) => cell = None
                  /\ cell # None =>
                        Val(cell) = << CoDeviationOn(percent_changes, x, y, S),
                                       CoDeviationOn(percent_changes, x, x, S),
                                       CoDeviationOn(percent_changes, y, y, S) >>

C9_Witness ==
    /\ tpc = "written"
    /\ SeriesValues(percent_changes["EUR"]) = <<Some(1), Some(1), Some(1)>>
    /\ SeriesValues(percent_changes["JPY"]) = <<Some(1), None, Some(2)>>
    /\ correlation_csv = << <<None, None>>, <<None, Some(<<1, 1, 1>>)>> >>

(***************************************************************************)
(* Claims about the chart renderer                                         *)
(***************************************************************************)
HasPresentValue(values) == \E i \in 1..Len(values) : values[i] # None

ChartPoints == Points(chart_values)
Drawn == Val(svg_file)

\* every present value of the series is the same number
ConstantSeries(points) ==
    \A i, j \in 1..Len(points) : points[i][2] = points[j][2]

\* padding + (width - 2 * padding) / 2, as drawn
CanvasCenter == Format2(<<2 * padding + (width - 2 * padding), 2>>)

\* C11: rendering never divides by zero: a series with a single present
\* value has its point drawn at the horizontal canvas center, and for a
\* constant series the value range is the value minus 1 to the value plus 1,
\* so the vertical extent that scale_y divides by is not zero.
C11_NoDivisionByZero ==
    /\ rpc # "ZeroDivisionError"
    /\ rpc = "written" =>
          /\ Len(ChartPoints) = 1 =>
                Drawn.polyline_points[1].x = CanvasCenter
          /\ ConstantSeries(ChartPoints) =>
                LET value == ChartPoints[1][2]
                IN  /\ Drawn.min_y = <<value[1], value[2] - 100>>
                    /\ Drawn.max_y = <<value[1], value[2] + 100>>
                    /\ FloatSub(Drawn.max_y, Drawn.min_y) # FloatZero

\* a drawn x, in hundredths of a pixel, inside [padding, width - padding]
InPlotRange(x) == padding * 100 <= x /\ x <= (width - padding) * 100

\* C12: for a series with at least one present value every drawn x lies in
\* [padding, width - padding]: the x of every polyline point, and the x of
\* every vertical year gridline and its label, also when leading or trailing
\* values are absent.
C12_DrawnXInPlotRange ==
    rpc = "written" =>
       /\ \A i \in 1..Len(Drawn.polyline_points) :
             InPlotRange(Drawn.polyline_points[i].x)
       /\ \A k \in 1..Len(Drawn.year_tick_labels) :
             InPlotRange(Drawn.year_tick_labels[k].x_position)

====
